---- MODULE Spec2Model ----
(***************************************************************************)
(* Model of the out-of-process PTY layer of the terminal plugin:           *)
(*   - the Host Supervisor      (PTYManager,  src/terminal/pty-manager.ts) *)
(*   - the PTY Worker           (pty-host.js)                              *)
(*   - the Session Orchestrator (ShellManager and TerminalView.switchShell,*)
(*                               src/terminal/terminal-view.ts)            *)
(* The JavaScript event loop is modelled as it schedules: an event handler *)
(* (a message, a timer, a process exit) is one atomic action; functions    *)
(* suspended at an await are records in a queue, resumed as microtasks     *)
(* before the next event handler runs.                                     *)
(* The supervisor is taken as initialized with its plugin directory, so    *)
(* startHost() gets as far as launching the worker.                        *)
(***************************************************************************)
EXTENDS Integers, Sequences, FiniteSets, TLC

\* ---------------------------------------------------------------- bounds
\* worker process slots of the model (the most any run launches)
MaxProc == 5
\* worker processes one supervisor may launch in a run of Spec
MaxWorkers == 2
\* stopHost() calls in a run of Spec
MaxStops == 1
\* worker crashes in a run of Spec
MaxCrashes == 1
\* session ids one supervisor may issue in a run of Spec
MaxId == 2
\* session id slots of the model
MaxSessions == 3
\* requests waiting in a worker's inbound pipe
MaxReq == 2
\* shell profiles the user can choose from
MaxProfile == 2
\* switchShell() calls in a run of SpecSwitch
MaxSwitches == 2

\* session ids a message of arbitrary shape may name
MaxRawId == 2
\* messages of arbitrary shape in a run of SpecRaw
MaxRaw == 2
\* chunks of output the native processes produce, callbacks registered with onData
MaxData == 3
MaxCallbacks == 3
\* kill() calls in a run of SpecData
MaxKills == 1
\* messages of one worker the supervisor has not read yet, when the worker fails
MaxPending == 2

\* ------------------------------------------------- constants of the code
MAX_RESTART_ATTEMPTS == 3

Workers  == 1..MaxProc
Ids      == 1..MaxSessions
Profiles == 1..MaxProfile

VARIABLES
  \* --- PTYManager fields
  hostProcess,      \* 0 = null, else the worker process it refers to
  hostReady,
  hostInitPromise,  \* 0 = null, else the promise created when that worker was launched
  nextPtyId,
  activePTYs,       \* the ids in the registry map
  restartAttempts,
  \* --- promises and timers created by startHost / attemptHostRestart
  promise,          \* promise[k]: state of the readiness promise of launch k
  initTimer,        \* launches whose 5 s readiness timer has not fired
  restartTimers,    \* attemptHostRestart calls waiting in the 1 s cooldown
  waiters,          \* functions suspended at `await this.startHost()`, oldest first
  \* --- worker processes (operating-system side)
  launched,         \* number of worker processes launched so far
  wstate,           \* per worker: none, init, up, failing, killed, dead, gone
  wcode,            \* exit code of a dead worker (0 or 1 standing for non-zero/null)
  reqQ,             \* requests in flight to each worker, in send order
  evQ,              \* events in flight from each worker, in send order
  ptyProcesses,     \* the worker's id-keyed table
  nat,              \* native shell process of each session id
  owner,            \* worker process that created the native process of an id
  \* --- holders of PTYProcess handles returned by spawn() to other callers
  handles,
  \* --- ShellManager fields
  ptyProcess,       \* 0 = null, else the session id of the handle it holds
  currentProfile,   \* 0 = null
  xtermDisposables, \* 0 = null, else the session whose xterm listeners they dispose
  xtermRegistered,  \* sessions whose data/resize listeners are attached to xterm
  exitCallbacks,    \* sessions on which start() registered its onExit callback
  \* --- TerminalView fields
  switchInProgress,
  exitListeners,    \* once('exit', onExit) listeners of switchShell, each with its 5 s timer
  \* --- observation of what the program emitted (no code reads these)
  idLog,            \* ids in the order spawn() issued them
  sentTo,           \* worker the spawn request of an id was sent to, 0 if none
  joined,           \* readiness promise the spawn() call that got the id had awaited
  hostExitEmits,    \* number of 'host-exit' events emitted
  crashNotices,     \* number of "PTY host crashed 3 times" notices
  restartCalls,     \* number of attemptHostRestart invocations
  stops,            \* number of stopHost() calls that found a host process
  switchLog,        \* one record per switchShell() call
  started,          \* profile of the session start() obtained, 0 if none
  spawnReplies,     \* what handleSpawn answered for each id, in order
  errorEmits,       \* ids handleHostMessage passed to emit('error', id, error)
  uncaught,         \* ids whose emit('error') threw out of the 'message' handler
  exitRuns,         \* exitRuns[id]: times the exit callbacks of session id were run
  startErrors,      \* number of 'error' events ShellManager.start() emitted
  handleCalls,      \* write/resize/kill calls on returned handles that did not throw
  rawSeen,          \* number of messages of arbitrary shape received from a worker
  rawIn,            \* the last of them
  emitted,          \* <<event, id>>: the 'spawn' and 'exit' events PTYManager emitted
  dataLog,          \* the data callback invocations, in order: session, callback, chunk
  dataCallbacks,    \* dataCallbacks[id]: callbacks registered with onData on a returned handle
  dataOut           \* dataOut[id]: chunks of output the native process of id has produced

supVars   == <<hostProcess, hostReady, hostInitPromise, nextPtyId, activePTYs, restartAttempts>>
asyncVars == <<promise, initTimer, restartTimers, waiters>>
procVars  == <<launched, wstate, wcode>>
chanVars  == <<reqQ, evQ>>
workVars  == <<ptyProcesses, nat, owner>>
obsVars   == <<idLog, sentTo, joined, hostExitEmits, crashNotices, restartCalls, stops>>
smVars    == <<ptyProcess, currentProfile, xtermDisposables, xtermRegistered, exitCallbacks>>
viewVars  == <<switchInProgress, exitListeners>>
orchVars  == <<smVars, viewVars, switchLog, started>>
msgObs    == <<errorEmits, uncaught, exitRuns, emitted, dataLog>>
rawObs    == <<rawSeen, rawIn>>
dataVars  == <<dataCallbacks, dataOut>>
probeVars == <<msgObs, startErrors, handleCalls, rawObs, dataVars>>
vars == <<supVars, asyncVars, procVars, chanVars, workVars, handles, obsVars,
          orchVars, spawnReplies, probeVars>>

\* ------------------------------------------------------------- messages
\* a decoded message: idType is typeof message.id, fields says whether the other
\* fields its type requires (pid, data, exitCode and signal, error.message, cols
\* and rows) have the types of the HostEvent shapes
Raw(t, idType, i, f, c) == [type |-> t, idType |-> idType, id |-> i, fields |-> f, code |-> c]
\* what the worker sends: id 0 stands for a message without an id
Ev(t, i, c)  == Raw(t, IF i = 0 THEN "undefined" ELSE "number", i, "ok", c)
Req(t, i)    == [type |-> t, id |-> i]
\* a data event carrying the n-th chunk of output of session i
DataEv(i, n) == [type |-> "data", idType |-> "number", id |-> i, fields |-> "ok",
                 code |-> "", data |-> n]

\* the worker process is running (it has not terminated and was not signalled)
Alive(k) == wstate[k] \in {"init", "up", "failing"}

\* ------------------------------------------------------------ event loop
\* a suspended function whose awaited value is available: a microtask is queued for it
Settled(w) == IF w.await = 0 THEN TRUE ELSE promise[w.await] \in {"resolved", "rejected"}
MicrotaskPending == \E i \in 1..Len(waiters) : Settled(waiters[i])
\* a microtask queued by a promise that an event handler settled
ReactionPending  == \E i \in 1..Len(waiters) :
                       waiters[i].await # 0 /\ Settled(waiters[i])
\* an event handler (message, timer, exit) starts only with the microtask queue empty
CanRunTask == ~MicrotaskPending
\* a synchronous call from the embedding code: not in the middle of promise reactions
CanCall    == ~ReactionPending

RemoveAt(s, i) == SubSeq(s, 1, i - 1) \o SubSeq(s, i + 1, Len(s))

Init ==
  /\ hostProcess = 0 /\ hostReady = FALSE /\ hostInitPromise = 0
  /\ nextPtyId = 1 /\ activePTYs = {} /\ restartAttempts = 0
  /\ promise = [k \in Workers |-> "none"]
  /\ initTimer = {} /\ restartTimers = 0 /\ waiters = <<>>
  /\ launched = 0
  /\ wstate = [k \in Workers |-> "none"]
  /\ wcode = [k \in Workers |-> 0]
  /\ reqQ = [k \in Workers |-> <<>>]
  /\ evQ = [k \in Workers |-> <<>>]
  /\ ptyProcesses = [k \in Workers |-> {}]
  /\ nat = [i \in Ids |-> "none"]
  /\ owner = [i \in Ids |-> 0]
  /\ handles = {}
  /\ ptyProcess = 0 /\ currentProfile = 0
  /\ xtermDisposables = 0 /\ xtermRegistered = {} /\ exitCallbacks = {}
  /\ switchInProgress = FALSE /\ exitListeners = <<>>
  /\ idLog = <<>>
  /\ sentTo = [i \in Ids |-> 0]
  /\ joined = [i \in Ids |-> 0]
  /\ hostExitEmits = 0 /\ crashNotices = 0 /\ restartCalls = 0 /\ stops = 0
  /\ switchLog = <<>>
  /\ started = [i \in Ids |-> 0]
  /\ spawnReplies = [i \in Ids |-> <<>>]
  /\ emitted = {} /\ dataLog = <<>>
  /\ dataCallbacks = [i \in Ids |-> <<>>]
  /\ dataOut = [i \in Ids |-> 0]
  /\ errorEmits = {} /\ uncaught = {}
  /\ exitRuns = [i \in Ids |-> 0]
  /\ startErrors = 0 /\ handleCalls = 0
  /\ rawSeen = 0 /\ rawIn = Raw("none", "undefined", 0, "ok", "")

\* ------------------------------------------------ PTYManager.startHost
\* startHost without the `if (this.hostInitPromise) return this.hostInitPromise` line:
\* a call that finds a launch in flight launches again
startHostNoJoin(p) ==
  \/ /\ hostProcess # 0 /\ hostReady
     /\ p = 0
     /\ UNCHANGED <<hostProcess, hostInitPromise, promise, initTimer, procVars>>
  \/ /\ ~(hostProcess # 0 /\ hostReady)
     /\ p = launched + 1
     /\ p \in Workers
     /\ launched' = launched + 1
     /\ hostInitPromise' = p
     /\ hostProcess' = p
     /\ promise' = [promise EXCEPT ![p] = "pending"]
     /\ initTimer' = initTimer \cup {p}
     /\ wstate' = [wstate EXCEPT ![p] = "init"]
     /\ UNCHANGED wcode

\* startHost() up to its return; p is the promise the caller then awaits
\* (0: it returned at once because the host is already running).
startHost(p) ==
  \/ /\ hostProcess # 0 /\ hostReady
     /\ p = 0
     /\ UNCHANGED <<hostProcess, hostInitPromise, promise, initTimer, procVars>>
  \/ /\ ~(hostProcess # 0 /\ hostReady)
     /\ hostInitPromise # 0
     /\ p = hostInitPromise
     /\ UNCHANGED <<hostProcess, hostInitPromise, promise, initTimer, procVars>>
  \/ /\ ~(hostProcess # 0 /\ hostReady)
     /\ hostInitPromise = 0
     /\ p = launched + 1
     /\ p \in Workers
     /\ launched' = launched + 1
     /\ hostInitPromise' = p
     /\ hostProcess' = p
     /\ promise' = [promise EXCEPT ![p] = "pending"]
     /\ initTimer' = initTimer \cup {p}
     /\ wstate' = [wstate EXCEPT ![p] = "init"]
     /\ UNCHANGED wcode

\* spawn() up to `await this.startHost()`, called by some other holder of the supervisor
SpawnCall ==
  /\ CanCall
  /\ \E p \in 0..MaxProc :
       /\ startHost(p)
       /\ waiters' = Append(waiters, [kind |-> "spawn", await |-> p, profile |-> 0])
  /\ UNCHANGED <<hostReady, nextPtyId, activePTYs, restartAttempts, restartTimers,
                 chanVars, workVars, handles, obsVars, orchVars, spawnReplies, probeVars>>

\* ------------------------------------------------ PTYManager.sendToHost
\* the guard of sendToHost: it throws 'PTY host not ready' otherwise
HostWritable == hostProcess # 0 /\ hostReady
\* hostProcess.send(message): the message enters the pipe of the process
\* hostProcess refers to; a process that has terminated reads nothing
sendToHost(m) ==
  IF wstate[hostProcess] \in {"init", "up", "failing"}
    THEN reqQ' = [reqQ EXCEPT ![hostProcess] = Append(@, m)]
    ELSE reqQ' = reqQ

\* ----------------------------------------------------- PTYManager.spawn
\* an id taken from the size of the registry instead of the counter
GenerateIdFromSize == Cardinality(activePTYs) + 1

\* `const id = this.nextPtyId++`
GenerateId == nextPtyId
IdAfterGenerate == nextPtyId + 1

\* spawn() after `await this.startHost()` resolved (w is the suspended call)
spawnContinue(w) ==
  LET id == GenerateId IN
  /\ nextPtyId' = IdAfterGenerate
  /\ activePTYs' = activePTYs \cup {id}
  /\ idLog' = Append(idLog, id)
  /\ joined' = [joined EXCEPT ![id] = w.await]
  /\ IF HostWritable
       THEN /\ sendToHost(Req("spawn", id))
            /\ sentTo' = [sentTo EXCEPT ![id] = hostProcess]
            /\ handles' = IF w.kind = "spawn" THEN handles \cup {id} ELSE handles
       ELSE \* sendToHost throws: spawn() rejects, the registry entry stays
            /\ UNCHANGED <<reqQ, sentTo, handles>>

\* ------------------------------------------ ShellManager (terminal-view.ts)
disposeXtermListeners ==
  /\ xtermRegistered' = xtermRegistered \ {xtermDisposables}
  /\ xtermDisposables' = 0

\* a stop() that kills the handle first and tears the wirings down afterwards:
\* when the kill throws, nothing has been torn down
stopKillFirst ==
  IF ptyProcess # 0 /\ ~HostWritable
    THEN UNCHANGED <<reqQ, ptyProcess, xtermDisposables, xtermRegistered>>
    ELSE /\ disposeXtermListeners
         /\ IF ptyProcess # 0
              THEN /\ sendToHost(Req("kill", ptyProcess))
                   /\ ptyProcess' = 0
              ELSE UNCHANGED <<reqQ, ptyProcess>>

\* stop(): the xterm wirings are disposed, then the handle is killed and dropped;
\* when the kill throws ('PTY host not ready') the handle stays
stop ==
  /\ disposeXtermListeners
  /\ IF ptyProcess # 0 /\ HostWritable
       THEN /\ sendToHost(Req("kill", ptyProcess))
            /\ ptyProcess' = 0
       ELSE UNCHANGED <<reqQ, ptyProcess>>

\* start() after `await this.ptyManager.spawn(...)` returned the handle of id
startContinue(id, profile) ==
  /\ ptyProcess' = id
  /\ exitCallbacks' = exitCallbacks \cup {id}
  /\ xtermDisposables' = id
  /\ xtermRegistered' = xtermRegistered \cup {id}
  /\ started' = [started EXCEPT ![id] = profile]
  /\ UNCHANGED <<currentProfile, startErrors>>

\* the catch block of start(): spawn() rejected
startFailed ==
  /\ disposeXtermListeners
  /\ ptyProcess' = 0
  /\ startErrors' = startErrors + 1
  /\ UNCHANGED <<currentProfile, exitCallbacks, started>>

\* the microtask of the oldest suspended function whose promise is settled
ResumeWaiter ==
  /\ MicrotaskPending
  /\ LET i == CHOOSE j \in 1..Len(waiters) :
                 /\ Settled(waiters[j])
                 /\ \A h \in 1..(j - 1) : ~Settled(waiters[h])
         w == waiters[i]
         ok == IF w.await = 0 THEN TRUE ELSE promise[w.await] = "resolved"
     IN /\ waiters' = RemoveAt(waiters, i)
        /\ IF w.kind = "restart"
             THEN \* attemptHostRestart() after `await this.startHost()`
                  /\ restartAttempts' = IF ok THEN 0 ELSE restartAttempts
                  /\ UNCHANGED <<nextPtyId, activePTYs, idLog, joined, reqQ, sentTo,
                                 handles, smVars, started, startErrors>>
             ELSE /\ IF ok
                       THEN spawnContinue(w)
                       ELSE \* the await throws: spawn() rejects
                            UNCHANGED <<nextPtyId, activePTYs, idLog, joined, reqQ,
                                        sentTo, handles>>
                  /\ UNCHANGED restartAttempts
                  /\ IF w.kind = "start"
                       THEN IF ok /\ HostWritable
                              THEN startContinue(GenerateId, w.profile)
                              ELSE startFailed
                       ELSE UNCHANGED <<smVars, started, startErrors>>
  /\ UNCHANGED <<hostProcess, hostReady, hostInitPromise, promise, initTimer,
                 restartTimers, procVars, evQ, workVars,
                 hostExitEmits, crashNotices, restartCalls, stops,
                 viewVars, switchLog, spawnReplies, msgObs, handleCalls, rawObs, dataVars>>

\* the synchronous part of one or more start() calls made in a row: the first
\* stops the running session; every call sets the profile and runs spawn() up to
\* its await. The calls after the first find no session and get from startHost()
\* what the first got (the same readiness promise, or an immediate return).
\* If the kill cannot be sent, stop() throws in every call before anything changes.
startCalls(profiles) ==
  IF ptyProcess # 0 /\ ~HostWritable
    THEN UNCHANGED <<reqQ, currentProfile, waiters, hostProcess, hostInitPromise,
                     promise, initTimer, procVars>>
    ELSE /\ IF ptyProcess # 0
              THEN sendToHost(Req("kill", ptyProcess))
              ELSE UNCHANGED reqQ
         /\ currentProfile' = profiles[Len(profiles)]
         /\ \E p \in 0..MaxProc :
              /\ startHost(p)
              /\ waiters' = waiters \o
                   [i \in 1..Len(profiles) |->
                      [kind |-> "start", await |-> p, profile |-> profiles[i]]]

\* start(profile) up to its await, called with no exit callback running
start(profile) ==
  /\ startCalls(<<profile>>)
  /\ IF ptyProcess # 0
       THEN \* this.stop()
            /\ disposeXtermListeners
            /\ ptyProcess' = IF HostWritable THEN 0 ELSE ptyProcess
       ELSE UNCHANGED <<ptyProcess, xtermDisposables, xtermRegistered>>

\* the onExit callback start() registered on a session: emit('exit') runs the
\* onExit listeners of switchShell (each clears its timer and calls start()),
\* then the handle is dropped and the xterm listeners are disposed
ptyExitCallback ==
  /\ exitListeners' = <<>>
  /\ switchLog' = [i \in 1..Len(switchLog) |->
                     IF \E j \in 1..Len(exitListeners) : exitListeners[j].sw = i
                       THEN [switchLog[i] EXCEPT !.outcome = "restarted"]
                       ELSE switchLog[i]]
  /\ IF exitListeners = <<>>
       THEN UNCHANGED <<reqQ, currentProfile, waiters, hostProcess, hostInitPromise,
                        promise, initTimer, procVars>>
       ELSE startCalls([j \in 1..Len(exitListeners) |-> exitListeners[j].profile])
  /\ ptyProcess' = 0
  /\ disposeXtermListeners

\* what only an exit callback changes while a worker message is handled
cbVars == <<hostProcess, hostInitPromise, promise, initTimer, procVars, waiters, reqQ,
            ptyProcess, currentProfile, xtermDisposables, xtermRegistered,
            exitListeners, switchLog>>

\* ------------------------------------------------------------ isHostEvent
\* a validator that looks at the type of the message only
isHostEventTypeOnly(m) ==
  m.type \in {"ready", "spawned", "data", "exit", "error", "resized", "killed"}

isHostEvent(m) ==
  CASE m.type = "ready"   -> TRUE
    [] m.type = "spawned" -> m.idType = "number" /\ m.fields = "ok"
    [] m.type = "data"    -> m.idType = "number" /\ m.fields = "ok"
    [] m.type = "exit"    -> m.idType = "number" /\ m.fields = "ok"
    [] m.type = "error"   -> m.fields = "ok"
    [] m.type = "resized" -> m.idType = "number" /\ m.fields = "ok"
    [] m.type = "killed"  -> m.idType = "number"
    [] OTHER              -> FALSE

\* --------------------------------------------- PTYManager.handleHostMessage
\* listeners on the supervisor's 'error' event: ShellManager, the only owner of
\* a PTYManager, registers none
errorListeners == {}

\* this.emit('error', id, error): EventEmitter throws when 'error' has no listener
emitError(id) ==
  /\ errorEmits' = errorEmits \cup {id}
  /\ uncaught' = IF errorListeners = {} THEN uncaught \cup {id} ELSE uncaught

\* ptyData.dataCallbacks of the registry entry of id, in registration order:
\* callback 0 is the one start() registers (xtermManager.write), the others
\* were registered by another holder of the handle
DataCallbacksOf(id) == IF id \in exitCallbacks THEN <<0>> ELSE dataCallbacks[id]
\* message.data
Payload(m) == IF "data" \in DOMAIN m THEN m.data ELSE 0
\* a data case that runs the data callbacks of every session in the registry
RunDataCallbacksOfAll(m) ==
  LET all == CHOOSE q \in [1..Cardinality(activePTYs) -> activePTYs] :
                      \A a, b \in DOMAIN q : a < b => q[a] < q[b]
      cbs[i \in 0..Len(all)] ==
        IF i = 0 THEN <<>>
        ELSE cbs[i - 1] \o [j \in 1..Len(DataCallbacksOf(all[i])) |->
                              [id |-> all[i], cb |-> DataCallbacksOf(all[i])[j],
                               n |-> Payload(m)]]
  IN dataLog \o cbs[Len(all)]

\* `pty.dataCallbacks.forEach(callback => callback(message.data))`
RunDataCallbacks(m) ==
  dataLog \o [j \in 1..Len(DataCallbacksOf(m.id)) |->
                [id |-> m.id, cb |-> DataCallbacksOf(m.id)[j], n |-> Payload(m)]]

\* a handleHostMessage whose 'spawned' case emits 'spawn' without looking the
\* id up in the registry
handleHostMessageNoLookup(m) ==
  IF m.type = "exit" /\ m.id \in activePTYs
    THEN /\ activePTYs' = activePTYs \ {m.id}
         /\ IF m.id \in exitCallbacks
              THEN /\ ptyExitCallback
                   /\ exitRuns' = [exitRuns EXCEPT ![m.id] = @ + 1]
              ELSE UNCHANGED <<cbVars, exitRuns>>
         /\ emitted' = emitted \cup {<<"exit", m.id>>}
         /\ UNCHANGED <<errorEmits, uncaught, dataLog>>
    ELSE /\ activePTYs' = IF m.type = "killed" THEN activePTYs \ {m.id} ELSE activePTYs
         /\ IF m.type = "error" /\ m.idType = "number"
              THEN emitError(m.id)
              ELSE UNCHANGED <<errorEmits, uncaught>>
         /\ emitted' = IF m.type = "spawned"
                         THEN emitted \cup {<<"spawn", m.id>>}
                         ELSE emitted
         /\ dataLog' = IF m.type = "data" /\ m.id \in activePTYs
                         THEN RunDataCallbacks(m)
                         ELSE dataLog
         /\ UNCHANGED <<cbVars, exitRuns>>

handleHostMessage(m) ==
  IF m.type = "exit" /\ m.id \in activePTYs
    THEN /\ activePTYs' = activePTYs \ {m.id}
         /\ IF m.id \in exitCallbacks
              THEN /\ ptyExitCallback
                   /\ exitRuns' = [exitRuns EXCEPT ![m.id] = @ + 1]
              ELSE UNCHANGED <<cbVars, exitRuns>>
         /\ emitted' = emitted \cup {<<"exit", m.id>>}
         /\ UNCHANGED <<errorEmits, uncaught, dataLog>>
    ELSE /\ activePTYs' = IF m.type = "killed" THEN activePTYs \ {m.id} ELSE activePTYs
         /\ IF m.type = "error" /\ m.idType = "number"
              THEN emitError(m.id)
              ELSE UNCHANGED <<errorEmits, uncaught>>
         /\ emitted' = IF m.type = "spawned" /\ m.id \in activePTYs
                         THEN emitted \cup {<<"spawn", m.id>>}
                         ELSE emitted
         /\ dataLog' = IF m.type = "data" /\ m.id \in activePTYs
                         THEN RunDataCallbacks(m)
                         ELSE dataLog
         /\ UNCHANGED <<cbVars, exitRuns>>

\* resolve() / reject() of the promise of launch k: a settled promise stays as it is
Settle(k, s) == IF promise[k] = "pending" THEN [promise EXCEPT ![k] = s] ELSE promise

\* a handleRawMessage that reports an error received before ready and leaves
\* the promise of the launch alone
handleRawMessageNoReject(k, m) ==
  IF ~isHostEvent(m)
    THEN \* logged and dropped
         UNCHANGED <<hostReady, promise, activePTYs, cbVars, msgObs>>
    ELSE IF ~hostReady /\ m.type = "ready"
      THEN \* handleHostMessage does nothing for 'ready'
           /\ hostReady' = TRUE
           /\ promise' = Settle(k, "resolved")
           /\ UNCHANGED <<activePTYs, hostProcess, hostInitPromise, initTimer, procVars,
                          waiters, reqQ, ptyProcess, currentProfile, xtermDisposables,
                          xtermRegistered, exitListeners, switchLog, msgObs>>
      ELSE IF ~hostReady /\ m.type = "error"
        THEN /\ emitted' = emitted \cup {<<"host-error", k>>}
             /\ UNCHANGED <<promise, hostReady, activePTYs, hostProcess, hostInitPromise,
                            initTimer, procVars, waiters, reqQ, ptyProcess, currentProfile,
                            xtermDisposables, xtermRegistered, exitListeners, switchLog,
                            errorEmits, uncaught, exitRuns, dataLog>>
        ELSE /\ handleHostMessage(m)
             /\ UNCHANGED hostReady

\* handleRawMessage of the process launched as k (the closure holds k's resolve/reject)
handleRawMessage(k, m) ==
  IF ~isHostEvent(m)
    THEN \* logged and dropped
         UNCHANGED <<hostReady, promise, activePTYs, cbVars, msgObs>>
    ELSE IF ~hostReady /\ m.type = "ready"
      THEN \* handleHostMessage does nothing for 'ready'
           /\ hostReady' = TRUE
           /\ promise' = Settle(k, "resolved")
           /\ UNCHANGED <<activePTYs, hostProcess, hostInitPromise, initTimer, procVars,
                          waiters, reqQ, ptyProcess, currentProfile, xtermDisposables,
                          xtermRegistered, exitListeners, switchLog, msgObs>>
      ELSE IF ~hostReady /\ m.type = "error"
        THEN \* emit('host-error'), reject(hostError), return
             /\ promise' = Settle(k, "rejected")
             /\ emitted' = emitted \cup {<<"host-error", k>>}
             /\ UNCHANGED <<hostReady, activePTYs, hostProcess, hostInitPromise, initTimer,
                            procVars, waiters, reqQ, ptyProcess, currentProfile,
                            xtermDisposables, xtermRegistered, exitListeners, switchLog,
                            errorEmits, uncaught, exitRuns, dataLog>>
        ELSE /\ handleHostMessage(m)
             /\ UNCHANGED hostReady

\* a 'message' event of worker process k
DeliverEvent(k) ==
  /\ CanRunTask
  /\ evQ[k] # <<>>
  /\ evQ' = [evQ EXCEPT ![k] = Tail(@)]
  /\ handleRawMessage(k, Head(evQ[k]))
  /\ UNCHANGED <<nextPtyId, restartAttempts, restartTimers, workVars, handles, obsVars,
                 exitCallbacks, switchInProgress, started, spawnReplies,
                 startErrors, handleCalls, rawObs, dataVars>>

\* a 'message' event of worker process k carrying a message of any shape: a
\* known or unknown type, an id that is a number, a string or missing, the
\* other fields well-typed or not
RawTypes == {"ready", "spawned", "data", "exit", "error", "resized", "killed", "bogus"}
RawMessages ==
  {Raw(t, "number", i, f, "") : t \in RawTypes, i \in 1..MaxRawId, f \in {"ok", "bad"}}
    \cup {Raw(t, it, 0, f, "") : t \in RawTypes, it \in {"string", "undefined"},
                                 f \in {"ok", "bad"}}

DeliverRaw(k) ==
  /\ CanRunTask
  /\ Alive(k)
  /\ \E raw \in RawMessages :
       /\ rawIn' = raw
       /\ handleRawMessage(k, raw)
  /\ rawSeen' = rawSeen + 1
  /\ UNCHANGED <<evQ, nextPtyId, restartAttempts, restartTimers, workVars, handles, obsVars,
                 exitCallbacks, switchInProgress, started, spawnReplies,
                 startErrors, handleCalls, dataVars>>

\* ----------------------------------- the 'exit' handler of worker process k
\* an 'exit' handler that emits 'host-exit' only in its crash branch
exitHandlerEmitOnCrash(k) ==
  /\ hostReady' = FALSE
  /\ hostProcess' = 0
  /\ hostInitPromise' = 0
  /\ hostExitEmits' = IF wcode[k] # 0 THEN hostExitEmits + 1 ELSE hostExitEmits
  /\ IF wcode[k] # 0 /\ restartAttempts < MAX_RESTART_ATTEMPTS
       THEN /\ restartAttempts' = restartAttempts + 1
            /\ restartCalls' = restartCalls + 1
            /\ restartTimers' = restartTimers + 1
            /\ UNCHANGED crashNotices
       ELSE IF restartAttempts >= MAX_RESTART_ATTEMPTS
         THEN /\ crashNotices' = crashNotices + 1
              /\ UNCHANGED <<restartAttempts, restartCalls, restartTimers>>
         ELSE UNCHANGED <<restartAttempts, restartCalls, restartTimers, crashNotices>>
  /\ UNCHANGED <<nextPtyId, activePTYs>>

exitHandler(k) ==
  /\ hostReady' = FALSE
  /\ hostProcess' = 0
  /\ hostInitPromise' = 0
  /\ hostExitEmits' = hostExitEmits + 1
  /\ IF wcode[k] # 0 /\ restartAttempts < MAX_RESTART_ATTEMPTS
       THEN \* attemptHostRestart() up to its first await
            /\ restartAttempts' = restartAttempts + 1
            /\ restartCalls' = restartCalls + 1
            /\ restartTimers' = restartTimers + 1
            /\ UNCHANGED crashNotices
       ELSE IF restartAttempts >= MAX_RESTART_ATTEMPTS
         THEN /\ crashNotices' = crashNotices + 1
              /\ UNCHANGED <<restartAttempts, restartCalls, restartTimers>>
         ELSE UNCHANGED <<restartAttempts, restartCalls, restartTimers, crashNotices>>
  /\ UNCHANGED <<nextPtyId, activePTYs>>

\* an 'exit' handler that begins a restart after every crash, whatever the
\* number of attempts already made
HostExitRestartAlways(k) ==
  /\ CanRunTask
  /\ wstate[k] = "dead"
  /\ wstate' = [wstate EXCEPT ![k] = "gone"]
  /\ hostReady' = FALSE
  /\ hostProcess' = 0
  /\ hostInitPromise' = 0
  /\ hostExitEmits' = hostExitEmits + 1
  /\ IF wcode[k] # 0
       THEN /\ restartAttempts' = restartAttempts + 1
            /\ restartCalls' = restartCalls + 1
            /\ restartTimers' = restartTimers + 1
       ELSE UNCHANGED <<restartAttempts, restartCalls, restartTimers>>
  /\ evQ' = [evQ EXCEPT ![k] = <<>>]
  /\ UNCHANGED <<nextPtyId, activePTYs, crashNotices, promise, initTimer, waiters, launched,
                 wcode, reqQ, workVars, handles, idLog, sentTo, joined, stops, orchVars,
                 spawnReplies, probeVars>>

\* the 'exit' event of worker process k; what the process had sent and the
\* supervisor had not read by then is not delivered
HostExit(k) ==
  /\ CanRunTask
  /\ wstate[k] = "dead"
  /\ wstate' = [wstate EXCEPT ![k] = "gone"]
  /\ exitHandler(k)
  /\ evQ' = [evQ EXCEPT ![k] = <<>>]
  /\ UNCHANGED <<promise, initTimer, waiters, launched, wcode, reqQ, workVars,
                 handles, idLog, sentTo, joined, stops, orchVars, spawnReplies, probeVars>>

\* attemptHostRestart() after the cooldown: `await this.startHost()`
RestartTimer ==
  /\ CanRunTask
  /\ restartTimers > 0
  /\ restartTimers' = restartTimers - 1
  /\ \E p \in 0..MaxProc :
       /\ startHost(p)
       /\ waiters' = Append(waiters, [kind |-> "restart", await |-> p, profile |-> 0])
  /\ UNCHANGED <<hostReady, nextPtyId, activePTYs, restartAttempts,
                 chanVars, workVars, handles, obsVars, orchVars, spawnReplies, probeVars>>

\* the 5 s timer startHost set when it launched k; once the promise is settled
\* its reject() does nothing, so only the timer of a pending promise is a step
InitTimeout(k) ==
  /\ CanRunTask
  /\ k \in initTimer
  /\ promise[k] = "pending"
  /\ initTimer' = initTimer \ {k}
  /\ promise' = IF ~hostReady THEN Settle(k, "rejected") ELSE promise
  /\ UNCHANGED <<supVars, restartTimers, waiters, procVars, chanVars, workVars,
                 handles, obsVars, orchVars, spawnReplies, probeVars>>

\* --------------------------------------------------- PTYManager.stopHost
stopHost ==
  /\ CanCall
  /\ hostProcess # 0
  /\ wstate' = [wstate EXCEPT ![hostProcess] = IF Alive(hostProcess) THEN "killed" ELSE @]
  /\ hostProcess' = 0
  /\ hostReady' = FALSE
  /\ hostInitPromise' = 0
  /\ activePTYs' = {}
  /\ stops' = stops + 1
  /\ UNCHANGED <<nextPtyId, restartAttempts, asyncVars, launched, wcode, chanVars,
                 workVars, handles, idLog, sentTo, joined, hostExitEmits,
                 crashNotices, restartCalls, orchVars, spawnReplies, probeVars>>

\* ----------------------------------- PTYProcess.onData of a returned handle
\* `ptyData.dataCallbacks.push(callback)`: callbacks are numbered as they are created
CallbacksMade ==
  LET sum[i \in 0..MaxSessions] ==
        IF i = 0 THEN 0 ELSE sum[i - 1] + Len(dataCallbacks[i])
  IN sum[MaxSessions]

OnDataCall(id) ==
  /\ CanCall
  /\ id \in handles
  /\ dataCallbacks' = [dataCallbacks EXCEPT ![id] = Append(@, CallbacksMade + 1)]
  /\ UNCHANGED <<supVars, asyncVars, procVars, chanVars, workVars, handles, obsVars, orchVars,
                 spawnReplies, msgObs, startErrors, handleCalls, rawObs, dataOut>>

\* ------------------------------------- PTYProcess.kill of a returned handle
KillCall(id) ==
  /\ CanCall
  /\ id \in handles
  /\ HostWritable
  /\ Len(reqQ[hostProcess]) < MaxReq
  /\ sendToHost(Req("kill", id))
  /\ handles' = handles \ {id}
  /\ handleCalls' = handleCalls + 1
  /\ UNCHANGED <<supVars, asyncVars, procVars, evQ, workVars, obsVars, orchVars,
                 spawnReplies, msgObs, startErrors, rawObs, dataVars>>

\* ------------------------------------ PTYProcess.write of a returned handle
WriteCall(id) ==
  /\ CanCall
  /\ id \in handles
  /\ HostWritable
  /\ Len(reqQ[hostProcess]) < MaxReq
  /\ sendToHost(Req("write", id))
  /\ handleCalls' = handleCalls + 1
  /\ UNCHANGED <<supVars, asyncVars, procVars, evQ, workVars, handles, obsVars, orchVars,
                 spawnReplies, msgObs, startErrors, rawObs, dataVars>>

\* ----------------------------------- PTYProcess.resize of a returned handle
ResizeCall(id) ==
  /\ CanCall
  /\ id \in handles
  /\ HostWritable
  /\ Len(reqQ[hostProcess]) < MaxReq
  /\ sendToHost(Req("resize", id))
  /\ handleCalls' = handleCalls + 1
  /\ UNCHANGED <<supVars, asyncVars, procVars, evQ, workVars, handles, obsVars, orchVars,
                 spawnReplies, msgObs, startErrors, rawObs, dataVars>>

\* --------------------------------------------- xterm input (user typing)
\* xterm fires onData: every input listener start() registered and nobody
\* disposed runs `if (this.ptyProcess) this.ptyProcess.write(data)`, each on the
\* handle the ShellManager holds at that moment
XtermInput ==
  /\ CanCall
  /\ xtermRegistered # {}
  /\ LET n == IF ptyProcess # 0 /\ HostWritable THEN Cardinality(xtermRegistered) ELSE 0
     IN /\ reqQ' = IF n > 0
                     THEN IF wstate[hostProcess] \in {"init", "up", "failing"}
                            THEN [reqQ EXCEPT ![hostProcess] =
                                    @ \o [j \in 1..n |-> Req("write", ptyProcess)]]
                            ELSE reqQ
                     ELSE reqQ
        /\ handleCalls' = handleCalls + n
  /\ UNCHANGED <<supVars, asyncVars, procVars, evQ, workVars, handles, obsVars, orchVars,
                 spawnReplies, msgObs, startErrors, rawObs, dataVars>>

\* ------------------------------------------------ TerminalView (onOpen)
\* onOpen: `this.shellManager.start(defaultProfile, ...)`, the first start() of the view
OnOpen(profile) ==
  /\ CanCall
  /\ currentProfile = 0
  /\ start(profile)
  /\ UNCHANGED <<hostReady, nextPtyId, activePTYs, restartAttempts, restartTimers,
                 evQ, workVars, handles, obsVars, exitCallbacks, viewVars,
                 switchLog, started, spawnReplies, probeVars>>

\* ------------------------------------------- TerminalView.switchShell
SwitchRecord(profile, outcome) ==
  [profile |-> profile, from |-> currentProfile, stopped |-> ptyProcess,
   outcome |-> outcome]

\* switchShell(profile) up to its return. The `finally` block runs when the
\* function returns the promise, so the flag is false again after every call.
switchShell(profile) ==
  /\ switchInProgress' = FALSE
  /\ IF switchInProgress
       THEN \* the request is dropped
            /\ switchLog' = Append(switchLog, SwitchRecord(profile, "dropped"))
            /\ UNCHANGED <<exitListeners, reqQ, currentProfile, waiters, hostProcess,
                           hostInitPromise, promise, initTimer, procVars,
                           ptyProcess, xtermDisposables, xtermRegistered>>
       ELSE IF ptyProcess # 0
         THEN \* isRunning(): once('exit', onExit), then stop()
              /\ exitListeners' = Append(exitListeners,
                                     [sw |-> Len(switchLog) + 1, profile |-> profile])
              /\ stop
              /\ switchLog' = Append(switchLog,
                    SwitchRecord(profile, IF HostWritable
                                            THEN "waiting"
                                            ELSE \* kill throws inside the executor:
                                                 \* the promise rejects
                                                 "failed"))
              /\ UNCHANGED <<currentProfile, waiters, hostProcess, hostInitPromise,
                             promise, initTimer, procVars>>
         ELSE \* not running: clearTimeout, start(profile), resolve()
              /\ start(profile)
              /\ switchLog' = Append(switchLog, SwitchRecord(profile, "started"))
              /\ UNCHANGED exitListeners

\* the 'change' event of the shell selector
SwitchShell(profile) ==
  /\ CanRunTask
  /\ switchShell(profile)
  /\ UNCHANGED <<hostReady, nextPtyId, activePTYs, restartAttempts, restartTimers,
                 evQ, workVars, handles, obsVars, exitCallbacks, started, spawnReplies, probeVars>>

\* a timeout callback that rejects and leaves its exit listener registered
SwitchTimeoutKeepListener ==
  /\ CanRunTask
  /\ exitListeners # <<>>
  /\ exitListeners' = exitListeners
  /\ switchLog' = [switchLog EXCEPT ![exitListeners[1].sw].outcome =
                                       IF @ = "waiting" THEN "timeout" ELSE @]
  /\ UNCHANGED <<supVars, asyncVars, procVars, chanVars, workVars, handles, obsVars,
                 smVars, switchInProgress, started, spawnReplies, probeVars>>

\* the 5 s timer of the oldest waiting switchShell call: off('exit', onExit), reject
SwitchTimeout ==
  /\ CanRunTask
  /\ exitListeners # <<>>
  /\ exitListeners' = Tail(exitListeners)
  /\ switchLog' = [switchLog EXCEPT ![exitListeners[1].sw].outcome =
                                       IF @ = "waiting" THEN "timeout" ELSE @]
  /\ UNCHANGED <<supVars, asyncVars, procVars, chanVars, workVars, handles, obsVars,
                 smVars, switchInProgress, started, spawnReplies, probeVars>>

\* ======================================================== the PTY Worker
\* safeSend(message) of worker k
safeSend(k, m) == evQ' = [evQ EXCEPT ![k] = Append(@, m)]

\* an initializePTY whose catch block announces readiness as well
initializePTYReadyOnFailure(k) ==
  \/ /\ wstate' = [wstate EXCEPT ![k] = "up"]
     /\ safeSend(k, Ev("ready", 0, ""))
  \/ /\ wstate' = [wstate EXCEPT ![k] = "failing"]
     /\ evQ' = [evQ EXCEPT ![k] = @ \o <<Ev("error", 0, "PTY_INIT_FAILED"), Ev("ready", 0, "")>>]

\* initializePTY(): the native backend loads, or it does not
initializePTY(k) ==
  \/ /\ wstate' = [wstate EXCEPT ![k] = "up"]
     /\ safeSend(k, Ev("ready", 0, ""))
  \/ /\ wstate' = [wstate EXCEPT ![k] = "failing"]
     /\ safeSend(k, Ev("error", 0, "PTY_INIT_FAILED"))

WorkerInit(k) ==
  /\ CanRunTask
  /\ wstate[k] = "init"
  /\ initializePTY(k)
  /\ UNCHANGED <<supVars, asyncVars, launched, wcode, reqQ, workVars, handles, obsVars,
                 orchVars, spawnReplies, probeVars>>

\* handleSpawn whose catch block sends nothing
handleSpawnSilent(k, id, canSpawn) ==
  IF wstate[k] = "up" /\ canSpawn
    THEN /\ ptyProcesses' = [ptyProcesses EXCEPT ![k] = @ \cup {id}]
         /\ nat' = [nat EXCEPT ![id] = "running"]
         /\ owner' = [owner EXCEPT ![id] = k]
         /\ safeSend(k, Ev("spawned", id, ""))
         /\ spawnReplies' = [spawnReplies EXCEPT ![id] = Append(@, "spawned")]
    ELSE UNCHANGED <<evQ, workVars, spawnReplies>>

\* handleSpawn: canSpawn says whether resolveShellPath and pty.spawn succeed
handleSpawn(k, id, canSpawn) ==
  IF wstate[k] = "up" /\ canSpawn
    THEN /\ ptyProcesses' = [ptyProcesses EXCEPT ![k] = @ \cup {id}]
         /\ nat' = [nat EXCEPT ![id] = "running"]
         /\ owner' = [owner EXCEPT ![id] = k]
         /\ safeSend(k, Ev("spawned", id, ""))
         /\ spawnReplies' = [spawnReplies EXCEPT ![id] = Append(@, "spawned")]
    ELSE /\ safeSend(k, Ev("error", id, "PTY_SPAWN_FAILED"))
         /\ spawnReplies' = [spawnReplies EXCEPT ![id] = Append(@, "error")]
         /\ UNCHANGED workVars

\* handleWrite whose catch block sends nothing
handleWriteSilent(k, id) ==
  /\ UNCHANGED evQ
  /\ UNCHANGED <<workVars, spawnReplies>>

\* handleWrite
handleWrite(k, id) ==
  /\ IF id \in ptyProcesses[k]
       THEN UNCHANGED evQ
       ELSE safeSend(k, Ev("error", id, "PTY_WRITE_FAILED"))
  /\ UNCHANGED <<workVars, spawnReplies>>

\* handleResize
handleResize(k, id) ==
  /\ IF id \in ptyProcesses[k]
       THEN safeSend(k, Ev("resized", id, ""))
       ELSE safeSend(k, Ev("error", id, "PTY_RESIZE_FAILED"))
  /\ UNCHANGED <<workVars, spawnReplies>>

\* handleKill: killThrows says whether ptyProcess.kill(signal) throws. The
\* signal is sent and the entry deleted; the native process ends later, or not
\* at all when it ignores the signal.
handleKill(k, id, killThrows) ==
  /\ IF id \in ptyProcesses[k] /\ ~killThrows
       THEN /\ nat' = [nat EXCEPT ![id] = "dying"]
            /\ ptyProcesses' = [ptyProcesses EXCEPT ![k] = @ \ {id}]
            /\ safeSend(k, Ev("killed", id, ""))
            /\ UNCHANGED owner
       ELSE /\ safeSend(k, Ev("error", id, "PTY_KILL_FAILED"))
            /\ UNCHANGED workVars
  /\ UNCHANGED spawnReplies

\* handleMessage: the 'message' handler of worker k
handleMessage(k, m) ==
  CASE m.type = "spawn"  -> \E canSpawn \in BOOLEAN : handleSpawn(k, m.id, canSpawn)
    [] m.type = "write"  -> handleWrite(k, m.id)
    [] m.type = "resize" -> handleResize(k, m.id)
    [] m.type = "kill"   -> \E killThrows \in BOOLEAN : handleKill(k, m.id, killThrows)

WorkerHandle(k) ==
  /\ CanRunTask
  /\ wstate[k] \in {"up", "failing"}
  /\ reqQ[k] # <<>>
  /\ reqQ' = [reqQ EXCEPT ![k] = Tail(@)]
  /\ handleMessage(k, Head(reqQ[k]))
  /\ UNCHANGED <<supVars, asyncVars, procVars, handles, obsVars, orchVars, probeVars>>

\* ptyProcess.onData callback: the native process of id has produced output
NativeData(id) ==
  /\ CanRunTask
  /\ nat[id] \in {"running", "dying"}
  /\ wstate[owner[id]] \in {"up", "failing"}
  /\ dataOut' = [dataOut EXCEPT ![id] = @ + 1]
  /\ safeSend(owner[id], DataEv(id, dataOut[id] + 1))
  /\ UNCHANGED <<supVars, asyncVars, procVars, reqQ, workVars, handles, obsVars, orchVars,
                 spawnReplies, msgObs, startErrors, handleCalls, rawObs, dataCallbacks>>

\* ptyProcess.onExit callback: the native process of id has exited
NativeExit(id) ==
  /\ CanRunTask
  /\ nat[id] \in {"running", "dying"}
  /\ nat' = [nat EXCEPT ![id] = "exited"]
  /\ IF wstate[owner[id]] \in {"up", "failing"}
       THEN /\ safeSend(owner[id], Ev("exit", id, ""))
            /\ ptyProcesses' = [ptyProcesses EXCEPT ![owner[id]] = @ \ {id}]
       ELSE UNCHANGED <<evQ, ptyProcesses>>
  /\ UNCHANGED <<supVars, asyncVars, procVars, reqQ, owner, handles, obsVars,
                 orchVars, spawnReplies, probeVars>>

\* a handleShutdown that clears the table without killing what it tracks
handleShutdownNoKill(k) ==
  /\ ptyProcesses' = [ptyProcesses EXCEPT ![k] = {}]
  /\ UNCHANGED <<nat, owner>>

\* handleShutdown: kill every tracked native process, clear the table
handleShutdown(k) ==
  /\ nat' = [i \in Ids |-> IF i \in ptyProcesses[k] /\ nat[i] = "running"
                              THEN "dying" ELSE nat[i]]
  /\ ptyProcesses' = [ptyProcesses EXCEPT ![k] = {}]
  /\ UNCHANGED owner

\* the worker process terminates; its memory and its inbound pipe are gone
Terminate(k, code) ==
  /\ wstate' = [wstate EXCEPT ![k] = "dead"]
  /\ wcode' = [wcode EXCEPT ![k] = code]
  /\ reqQ' = [reqQ EXCEPT ![k] = <<>>]
  /\ UNCHANGED launched

\* `setTimeout(() => process.exit(1), 100)` after a failed initialization
WorkerFailExit(k) ==
  /\ CanRunTask
  /\ wstate[k] = "failing"
  /\ Terminate(k, 1)
  /\ ptyProcesses' = [ptyProcesses EXCEPT ![k] = {}]
  /\ UNCHANGED <<supVars, asyncVars, evQ, nat, owner, handles, obsVars, orchVars,
                 spawnReplies, probeVars>>

\* the process stopHost() signalled ends: its SIGTERM handler runs handleShutdown
\* and exits 0, or the platform ends it at once (no handler runs, code is not 0)
WorkerKilled(k) ==
  /\ CanRunTask
  /\ wstate[k] = "killed"
  /\ \/ Terminate(k, 0) /\ handleShutdown(k)
     \/ /\ Terminate(k, 1)
        /\ ptyProcesses' = [ptyProcesses EXCEPT ![k] = {}]
        /\ UNCHANGED <<nat, owner>>
  /\ UNCHANGED <<supVars, asyncVars, evQ, handles, obsVars, orchVars, spawnReplies, probeVars>>

\* the test that ends handleShutdown(reason), evaluated after ptyProcesses.clear():
\* `if (reason !== 'disconnect' || ptyProcesses.size > 0) process.exit(0)`
ShutdownExits(k, reason) == reason # "disconnect" \/ Cardinality(ptyProcesses'[k]) > 0

\* the 'disconnect' event of worker k: the supervisor's process is gone and the
\* channel is closed. When handleShutdown does not call process.exit the worker
\* keeps running without a parent ("orphan").
WorkerDisconnect(k) ==
  /\ wstate[k] \in {"init", "up"}
  /\ handleShutdown(k)
  /\ IF ShutdownExits(k, "disconnect")
       THEN Terminate(k, 0)
       ELSE /\ wstate' = [wstate EXCEPT ![k] = "orphan"]
            /\ reqQ' = [reqQ EXCEPT ![k] = <<>>]
            /\ UNCHANGED <<launched, wcode>>
  /\ evQ' = [evQ EXCEPT ![k] = <<>>]
  /\ UNCHANGED <<supVars, asyncVars, handles, obsVars, orchVars, spawnReplies, probeVars>>

\* a worker without a parent ends when its event loop is empty: no native
\* process it created is left
WorkerDrain(k) ==
  /\ wstate[k] = "orphan"
  /\ \A id \in Ids : owner[id] = k => nat[id] \notin {"running", "dying"}
  /\ wstate' = [wstate EXCEPT ![k] = "ended"]
  /\ UNCHANGED <<supVars, asyncVars, launched, wcode, chanVars, workVars, handles, obsVars,
                 orchVars, spawnReplies, probeVars>>

\* the worker process crashes (uncaught error, native fault, killed from outside)
WorkerCrash(k) ==
  /\ CanRunTask
  /\ wstate[k] \in {"init", "up"}
  /\ Terminate(k, 1)
  /\ ptyProcesses' = [ptyProcesses EXCEPT ![k] = {}]
  /\ UNCHANGED <<supVars, asyncVars, evQ, nat, owner, handles, obsVars, orchVars,
                 spawnReplies, probeVars>>

\* codes of the error events the top-level handlers of the worker send
FaultCodes == {"UNCAUGHT_EXCEPTION", "UNHANDLED_REJECTION"}

\* process.on('uncaughtException'): the error is sent with its code and
\* `setTimeout(() => process.exit(1), 100)` is armed
UncaughtException(k) ==
  /\ CanRunTask
  /\ wstate[k] = "up"
  /\ Len(evQ[k]) < MaxPending
  /\ safeSend(k, Ev("error", 0, "UNCAUGHT_EXCEPTION"))
  /\ wstate' = [wstate EXCEPT ![k] = "failing"]
  /\ UNCHANGED <<supVars, asyncVars, launched, wcode, reqQ, workVars, handles, obsVars,
                 orchVars, spawnReplies, probeVars>>

\* process.on('unhandledRejection'): the error is sent with its code; the
\* handler arms no timer and does not call process.exit
UnhandledRejection(k) ==
  /\ CanRunTask
  /\ wstate[k] = "up"
  /\ Len(evQ[k]) < MaxPending
  /\ safeSend(k, Ev("error", 0, "UNHANDLED_REJECTION"))
  /\ UNCHANGED <<supVars, asyncVars, procVars, reqQ, workVars, handles, obsVars,
                 orchVars, spawnReplies, probeVars>>

\* ================================================== the Host Supervisor run
\* startHost() would launch a worker process now
WouldLaunch == ~(hostProcess # 0 /\ hostReady) /\ hostInitPromise = 0
\* worker processes that have terminated
Terminated == {k \in Workers : wstate[k] \in {"dead", "gone"}}
\* ids promised to the spawn() calls still suspended
IdsReserved == Cardinality({i \in 1..Len(waiters) : waiters[i].kind # "restart"})

\* the supervisor and its worker, driven through spawn(), kill() and stopHost()
Next ==
  \/ /\ nextPtyId + IdsReserved <= MaxId
     /\ WouldLaunch => launched < MaxWorkers
     /\ SpawnCall
  \/ ResumeWaiter
  \/ stops < MaxStops /\ stopHost
  \/ (WouldLaunch => launched < MaxWorkers) /\ RestartTimer
  \/ \E id \in Ids : KillCall(id)
  \/ \E k \in Workers : DeliverEvent(k)
  \/ \E k \in Workers : HostExit(k)
  \/ \E k \in Workers : InitTimeout(k)
  \/ \E k \in Workers : WorkerInit(k)
  \/ \E k \in Workers : WorkerHandle(k)
  \/ \E k \in Workers : WorkerFailExit(k)
  \/ \E k \in Workers : WorkerKilled(k)
  \/ Cardinality(Terminated) < MaxCrashes /\ \E k \in Workers : WorkerCrash(k)
  \/ \E id \in Ids : NativeExit(id)

Spec == Init /\ [][Next]_vars

\* consecutive crashes: the first spawn() launches the first worker, every later
\* worker is launched by attemptHostRestart; no stopHost(), every exit is a crash
MaxRestartWorkers == 4

NextRestart ==
  \/ /\ nextPtyId + IdsReserved <= MaxId
     /\ WouldLaunch => launched = 0
     /\ SpawnCall
  \/ ResumeWaiter
  \/ (WouldLaunch => launched < MaxRestartWorkers) /\ RestartTimer
  \/ \E k \in Workers : DeliverEvent(k)
  \/ \E k \in Workers : HostExit(k)
  \/ \E k \in Workers : InitTimeout(k)
  \/ \E k \in Workers : WorkerInit(k)
  \/ \E k \in Workers : WorkerFailExit(k)
  \/ \E k \in Workers : WorkerCrash(k)

SpecRestart == Init /\ [][NextRestart]_vars

\* the worker serving requests with no crash and no stopHost(): every queued
\* microtask and every queued worker message is eventually handled
NextWorker ==
  \/ /\ nextPtyId + IdsReserved <= MaxId
     /\ WouldLaunch => launched < MaxWorkers
     /\ SpawnCall
  \/ ResumeWaiter
  \/ (WouldLaunch => launched < MaxWorkers) /\ RestartTimer
  \/ \E id \in Ids : KillCall(id)
  \/ \E k \in Workers : DeliverEvent(k)
  \/ \E k \in Workers : HostExit(k)
  \/ \E k \in Workers : InitTimeout(k)
  \/ \E k \in Workers : WorkerInit(k)
  \/ \E k \in Workers : WorkerHandle(k)
  \/ \E k \in Workers : WorkerFailExit(k)
  \/ \E id \in Ids : NativeExit(id)

SpecWorker ==
  /\ Init /\ [][NextWorker]_vars
  /\ WF_vars(ResumeWaiter)
  /\ \A k \in Workers : WF_vars(WorkerHandle(k))

\* the terminal view: onOpen starts the default shell, the user switches profiles
NextSwitch ==
  \/ \E profile \in Profiles : OnOpen(profile)
  \/ /\ currentProfile # 0
     /\ Len(switchLog) < MaxSwitches
     /\ nextPtyId + IdsReserved + Len(exitListeners) <= MaxSessions
     /\ WouldLaunch => launched < MaxWorkers
     /\ \E profile \in Profiles : SwitchShell(profile)
  \/ SwitchTimeout
  \/ ResumeWaiter
  \/ (WouldLaunch => launched < MaxWorkers) /\ RestartTimer
  \/ \E k \in Workers : DeliverEvent(k)
  \/ \E k \in Workers : HostExit(k)
  \/ \E k \in Workers : InitTimeout(k)
  \/ \E k \in Workers : WorkerInit(k)
  \/ \E k \in Workers : WorkerHandle(k)
  \/ \E k \in Workers : WorkerFailExit(k)
  \/ \E id \in Ids : NativeExit(id)

SpecSwitch == Init /\ [][NextSwitch]_vars

\* write() and resize() calls on returned handles in a run of SpecOps
MaxCalls == 2

\* holders of returned handles writing to, resizing and killing their sessions
\* while shells exit and the worker process may crash; the run ends before a
\* second worker process is launched
NextOps ==
  \/ /\ nextPtyId + IdsReserved <= MaxId
     /\ WouldLaunch => launched = 0
     /\ SpawnCall
  \/ ResumeWaiter
  \/ handleCalls < MaxCalls /\ \E id \in Ids : WriteCall(id)
  \/ handleCalls < MaxCalls /\ \E id \in Ids : ResizeCall(id)
  \/ \E id \in Ids : KillCall(id)
  \/ \E k \in Workers : DeliverEvent(k)
  \/ \E k \in Workers : HostExit(k)
  \/ \E k \in Workers : InitTimeout(k)
  \/ \E k \in Workers : WorkerInit(k)
  \/ \E k \in Workers : WorkerHandle(k)
  \/ \E k \in Workers : WorkerFailExit(k)
  \/ Cardinality(Terminated) < MaxCrashes /\ \E k \in Workers : WorkerCrash(k)
  \/ \E id \in Ids : NativeExit(id)

SpecOps == Init /\ [][NextOps]_vars

\* the view's shell session over one worker process that may send, besides its
\* own events, a message of any shape
NextRaw ==
  \/ \E profile \in Profiles : OnOpen(profile)
  \/ ResumeWaiter
  \/ rawSeen < MaxRaw /\ \E k \in Workers : DeliverRaw(k)
  \/ \E k \in Workers : DeliverEvent(k)
  \/ \E k \in Workers : HostExit(k)
  \/ \E k \in Workers : InitTimeout(k)
  \/ \E k \in Workers : WorkerInit(k)
  \/ \E k \in Workers : WorkerHandle(k)
  \/ \E k \in Workers : WorkerFailExit(k)
  \/ \E id \in Ids : NativeExit(id)

SpecRaw == Init /\ [][NextRaw]_vars

\* the supervisor's process has gone away
ParentGone == \E k \in Workers : wstate[k] \in {"orphan", "ended"}

\* consecutive crashes as in NextRestart, and spawn() called again after the
\* exit handler found the restart budget used up
NextExhausted ==
  \/ /\ nextPtyId + IdsReserved <= MaxId
     /\ WouldLaunch => (launched = 0 \/ (crashNotices >= 1 /\ launched < MaxProc))
     /\ SpawnCall
  \/ ResumeWaiter
  \/ (WouldLaunch => launched < MaxRestartWorkers) /\ RestartTimer
  \/ \E k \in Workers : DeliverEvent(k)
  \/ \E k \in Workers : HostExit(k)
  \/ \E k \in Workers : InitTimeout(k)
  \/ \E k \in Workers : WorkerInit(k)
  \/ \E k \in Workers : WorkerFailExit(k)
  \/ \E k \in Workers : WorkerCrash(k)

SpecExhausted == Init /\ [][NextExhausted]_vars

\* the terminal view with the user typing into it
NextInput ==
  \/ \E profile \in Profiles : OnOpen(profile)
  \/ /\ currentProfile # 0
     /\ Len(switchLog) < MaxSwitches
     /\ nextPtyId + IdsReserved + Len(exitListeners) <= MaxSessions
     /\ WouldLaunch => launched < MaxWorkers
     /\ \E profile \in Profiles : SwitchShell(profile)
  \/ SwitchTimeout
  \/ ResumeWaiter
  \/ handleCalls < MaxCalls /\ XtermInput
  \/ \E k \in Workers : DeliverEvent(k)
  \/ \E k \in Workers : HostExit(k)
  \/ \E k \in Workers : InitTimeout(k)
  \/ \E k \in Workers : WorkerInit(k)
  \/ \E k \in Workers : WorkerHandle(k)
  \/ \E k \in Workers : WorkerFailExit(k)
  \/ \E id \in Ids : NativeExit(id)

SpecInput == Init /\ [][NextInput]_vars

\* chunks of output produced so far
ChunksOut ==
  LET sum[i \in 0..MaxSessions] == IF i = 0 THEN 0 ELSE sum[i - 1] + dataOut[i]
  IN sum[MaxSessions]

\* sessions producing output: handles held by callers of spawn() that register
\* data callbacks and kill, one worker process
NextData ==
  \/ /\ nextPtyId + IdsReserved <= MaxId
     /\ WouldLaunch => launched = 0
     /\ SpawnCall
  \/ ResumeWaiter
  \/ CallbacksMade < MaxCallbacks /\ \E id \in Ids : OnDataCall(id)
  \/ handleCalls < MaxKills /\ \E id \in Ids : KillCall(id)
  \/ \E k \in Workers : DeliverEvent(k)
  \/ \E k \in Workers : WorkerInit(k)
  \/ \E k \in Workers : WorkerHandle(k)
  \/ ChunksOut < MaxData /\ \E id \in Ids : NativeData(id)

SpecData == Init /\ [][NextData]_vars

\* the supervisor torn down with stopHost() and left alone: no spawn() is
\* called after the stop
NextStop ==
  \/ /\ stops = 0
     /\ nextPtyId + IdsReserved <= MaxId
     /\ WouldLaunch => launched < MaxWorkers
     /\ SpawnCall
  \/ ResumeWaiter
  \/ stops < MaxStops /\ stopHost
  \/ (WouldLaunch => launched < MaxWorkers) /\ RestartTimer
  \/ \E k \in Workers : DeliverEvent(k)
  \/ \E k \in Workers : HostExit(k)
  \/ \E k \in Workers : InitTimeout(k)
  \/ \E k \in Workers : WorkerInit(k)
  \/ \E k \in Workers : WorkerHandle(k)
  \/ \E k \in Workers : WorkerFailExit(k)
  \/ \E k \in Workers : WorkerKilled(k)
  \/ Cardinality(Terminated) < MaxCrashes /\ \E k \in Workers : WorkerCrash(k)
  \/ \E id \in Ids : NativeExit(id)

SpecStop == Init /\ [][NextStop]_vars

\* one worker process and the ways it is shut down: stopHost() signals it, or
\* the supervisor's process goes away and the channel disconnects. The worker's
\* own steps are taken when they are possible; a native process that was sent a
\* kill signal may never end.
NextShutdown ==
  \/ /\ ~ParentGone
     /\ nextPtyId + IdsReserved <= MaxId
     /\ WouldLaunch => launched = 0
     /\ SpawnCall
  \/ ~ParentGone /\ ResumeWaiter
  \/ ~ParentGone /\ stops < MaxStops /\ stopHost
  \/ ~ParentGone /\ \E id \in Ids : KillCall(id)
  \/ ~ParentGone /\ \E k \in Workers : DeliverEvent(k)
  \/ ~ParentGone /\ \E k \in Workers : HostExit(k)
  \/ ~ParentGone /\ \E k \in Workers : InitTimeout(k)
  \/ \E k \in Workers : WorkerInit(k)
  \/ \E k \in Workers : WorkerHandle(k)
  \/ \E k \in Workers : WorkerFailExit(k)
  \/ \E k \in Workers : WorkerKilled(k)
  \/ \E k \in Workers : WorkerDisconnect(k)
  \/ \E k \in Workers : WorkerDrain(k)
  \/ \E id \in Ids : NativeExit(id)

SpecShutdown ==
  /\ Init /\ [][NextShutdown]_vars
  /\ WF_vars(~ParentGone /\ ResumeWaiter)
  /\ \A k \in Workers : WF_vars(WorkerKilled(k)) /\ WF_vars(WorkerDrain(k))

\* one worker process whose code may fail at the top level: an exception no
\* handler catches, a promise rejection nobody handles. Microtasks, queued
\* messages and the worker's exit timer run when they are due.
NextFault ==
  \/ /\ nextPtyId + IdsReserved <= MaxId
     /\ WouldLaunch => launched = 0
     /\ SpawnCall
  \/ ResumeWaiter
  \/ \E id \in Ids : KillCall(id)
  \/ \E k \in Workers : DeliverEvent(k)
  \/ \E k \in Workers : HostExit(k)
  \/ \E k \in Workers : InitTimeout(k)
  \/ \E k \in Workers : WorkerInit(k)
  \/ \E k \in Workers : WorkerHandle(k)
  \/ \E k \in Workers : WorkerFailExit(k)
  \/ \E k \in Workers : UncaughtException(k)
  \/ \E k \in Workers : UnhandledRejection(k)
  \/ \E id \in Ids : NativeExit(id)

SpecFault ==
  /\ Init /\ [][NextFault]_vars
  /\ WF_vars(ResumeWaiter)
  /\ \A k \in Workers : /\ WF_vars(DeliverEvent(k))
                         /\ WF_vars(WorkerHandle(k))
                         /\ WF_vars(WorkerFailExit(k))

\* the terminal view while the worker process may crash
NextCrash ==
  \/ \E profile \in Profiles : OnOpen(profile)
  \/ /\ currentProfile # 0
     /\ Len(switchLog) < MaxSwitches
     /\ nextPtyId + IdsReserved + Len(exitListeners) <= MaxSessions
     /\ WouldLaunch => launched < MaxWorkers
     /\ \E profile \in Profiles : SwitchShell(profile)
  \/ SwitchTimeout
  \/ ResumeWaiter
  \/ (WouldLaunch => launched < MaxWorkers) /\ RestartTimer
  \/ \E k \in Workers : DeliverEvent(k)
  \/ \E k \in Workers : HostExit(k)
  \/ \E k \in Workers : InitTimeout(k)
  \/ \E k \in Workers : WorkerInit(k)
  \/ \E k \in Workers : WorkerHandle(k)
  \/ \E k \in Workers : WorkerFailExit(k)
  \/ Cardinality(Terminated) < MaxCrashes /\ \E k \in Workers : WorkerCrash(k)
  \/ \E id \in Ids : NativeExit(id)

SpecCrash == Init /\ [][NextCrash]_vars

\* ================================================================ claims
IssuedIds == {idLog[i] : i \in 1..Len(idLog)}

\* C1: spawn() calls made before the first one resolves, with no worker running
\* yet (nothing stopped, nothing terminated), create exactly one worker process:
\* every such call awaits the readiness promise of that one worker (or finds it
\* ready), every id they obtain is requested from that same worker, and this
\* happens only after its ready message, which is handled once.
C1_OneWorkerForConcurrentSpawns ==
  (stops = 0 /\ Terminated = {}) =>
     /\ launched <= 1
     /\ \A i \in 1..Len(waiters) :
          waiters[i].kind = "spawn" =>
             /\ waiters[i].await \in {0, 1}
             /\ waiters[i].await = 0 => hostReady /\ hostProcess = 1
     /\ \A id \in IssuedIds :
          /\ sentTo[id] = 1 /\ joined[id] \in {0, 1}
          /\ joined[id] = 1 => promise[1] = "resolved"
          /\ hostReady /\ hostProcess = 1
     /\ hostReady => \A j \in 1..Len(evQ[1]) : evQ[1][j].type # "ready"

\* two spawn() calls joined the readiness promise of the one worker and both
\* got their id from it
C1_Witness ==
  /\ stops = 0 /\ Terminated = {} /\ launched = 1
  /\ Len(idLog) >= 2
  /\ \A id \in IssuedIds : joined[id] = 1 /\ sentTo[id] = 1

\* C2: at most one worker process launched by the supervisor is starting or
\* ready at a time, and the supervisor refers to it (hostProcess).
C2_AtMostOneLiveWorker ==
  /\ Cardinality({k \in Workers : wstate[k] \in {"init", "up"}}) <= 1
  /\ \A k \in Workers : wstate[k] \in {"init", "up"} => hostProcess = k

\* C3: the ids spawn() issues are strictly increasing, hence never reused.
C3_IdsStrictlyIncreasing ==
  \A i, j \in 1..Len(idLog) : i < j => idLog[i] < idLog[j]

\* two ids issued to two different worker processes, the first session gone
\* from the registry when the second id was issued
C3_Witness ==
  /\ Len(idLog) >= 2
  /\ sentTo[idLog[1]] # 0 /\ sentTo[idLog[2]] # 0
  /\ sentTo[idLog[1]] # sentTo[idLog[2]]
  /\ idLog[1] \notin activePTYs

\* C4: after more than MAX_RESTART_ATTEMPTS consecutive worker crashes the
\* supervisor has attempted exactly MAX_RESTART_ATTEMPTS restarts and has
\* raised the failure notice exactly once.
C4_RestartBound ==
  Cardinality({k \in Workers : wstate[k] = "gone"}) > MAX_RESTART_ATTEMPTS =>
     restartCalls = MAX_RESTART_ATTEMPTS /\ crashNotices = 1

\* native shell processes created by worker k that have not exited
LiveNatives(k) == {id \in Ids : owner[id] = k /\ nat[id] \in {"running", "dying"}}

\* C5: whatever spawn and kill requests a running worker has processed, the ids
\* in its table are exactly the native shell processes it created that are live.
C5_TableEqualsLiveNatives ==
  \A k \in Workers : wstate[k] = "up" => ptyProcesses[k] = LiveNatives(k)

\* C6: handleSpawn answers a spawn request at most once (spawned or error, never
\* both), and every spawn request sent to the worker is eventually answered.
C6_SpawnAnsweredOnce ==
  /\ [](\A id \in Ids : Len(spawnReplies[id]) <= 1)
  /\ \A id \in Ids : (sentTo[id] # 0) ~> (Len(spawnReplies[id]) = 1)

\* one request answered with spawned, another with error, nothing left to handle
C6_Witness ==
  /\ \E a, b \in Ids : spawnReplies[a] = <<"spawned">> /\ spawnReplies[b] = <<"error">>
  /\ \A k \in Workers : reqQ[k] = <<>>

\* C7: a switchShell() call made while an earlier call is still waiting for the
\* old shell's exit (or its timeout) is dropped: it stops no shell, starts no
\* shell and registers no exit listener.
C7_SecondSwitchDropped ==
  [][(/\ Len(switchLog') = Len(switchLog) + 1
      /\ \E i \in 1..Len(switchLog) : switchLog[i].outcome = "waiting")
        => UNCHANGED <<ptyProcess, currentProfile, waiters, reqQ, exitListeners>>]_vars

\* nothing of the orchestrator, the supervisor or the worker is pending
Quiescent ==
  /\ waiters = <<>> /\ exitListeners = <<>> /\ restartTimers = 0
  /\ \A k \in Workers : reqQ[k] = <<>> /\ evQ[k] = <<>> /\ wstate[k] \in {"none", "up"}

\* sessions the orchestrator started that are in the table of a running worker
LiveSessions ==
  {id \in Ids : started[id] # 0 /\ \E k \in Workers : wstate[k] = "up" /\ id \in ptyProcesses[k]}

\* C8: after two switchShell() calls, once everything pending has settled, with
\* no shell having exited, no spawn having failed and no worker start having
\* failed, exactly one session the orchestrator started is live in the worker
\* and it is the one its handle refers to.
C8_OneSessionAfterTwoSwitches ==
  (/\ Len(switchLog) = 2
   /\ Quiescent
   /\ \A id \in Ids : nat[id] # "exited" /\ spawnReplies[id] # <<"error">>
   /\ \A k \in Workers : promise[k] # "rejected")
     => Cardinality(LiveSessions) = 1 /\ ptyProcess \in LiveSessions

\* C9: when the only switchShell() call, made on a running shell that has not
\* exited, times out, the orchestrator is still on the old profile: its handle
\* refers to the old session (isRunning), the profile is unchanged, no start is pending.
C9_TimeoutKeepsOldShell ==
  [][\A i \in 1..Len(switchLog) :
       (/\ Len(switchLog) = 1
        /\ switchLog[i].outcome = "waiting"
        /\ switchLog'[i].outcome = "timeout"
        /\ nat[switchLog[i].stopped] \in {"running", "dying"})
          => /\ ptyProcess' = switchLog[i].stopped
             /\ currentProfile' = switchLog[i].from
             /\ \A j \in 1..Len(waiters') : waiters'[j].kind # "start"]_vars

\* C10: when the exit of a worker process has been handled, the registry is empty.
C10_RegistryEmptyAfterHostExit ==
  [][hostExitEmits' = hostExitEmits + 1 => activePTYs' = {}]_vars

\* C11: when the exit of worker process k is handled, the exit callbacks of every
\* registered session that was requested from k are run, and the orchestrator
\* whose handle refers to such a session drops it (it is no longer running).
C11_WorkerExitNotifiesSessions ==
  [][\A k \in Workers :
       (wstate[k] = "dead" /\ wstate'[k] = "gone") =>
          \A id \in activePTYs :
             (sentTo[id] = k /\ id \in exitCallbacks) =>
                /\ exitRuns'[id] = exitRuns[id] + 1
                /\ ptyProcess = id => ptyProcess' = 0]_vars

\* worker processes whose 'exit' event the supervisor has handled
ExitsHandled == {k \in Workers : wstate[k] = "gone"}

\* C12: the supervisor has emitted 'host-exit' exactly once for each worker
\* process whose exit it has handled, whatever sessions are registered.
C12_HostExitOncePerWorkerExit ==
  hostExitEmits = Cardinality(ExitsHandled)

\* two worker processes have exited, one stopped with exit code 0 and one with a
\* failure code, a session still registered: 'host-exit' was emitted twice
C12_Witness ==
  /\ Cardinality(ExitsHandled) = 2 /\ hostExitEmits = 2
  /\ \E a, b \in ExitsHandled : wcode[a] = 0 /\ wcode[b] # 0
  /\ activePTYs # {}

\* C13: once the supervisor has handled the error event that answered the spawn
\* request of an id, no spawned event for that id is in flight and the id is no
\* longer in the registry.
C13_SpawnErrorRemovesEntry ==
  \A id \in errorEmits :
     spawnReplies[id] = <<"error">> =>
        /\ \A k \in Workers : \A j \in 1..Len(evQ[k]) :
              ~(evQ[k][j].type = "spawned" /\ evQ[k][j].id = id)
        /\ id \notin activePTYs

\* the failure code of each operation on a session
FailureCode(t) ==
  CASE t = "write"  -> "PTY_WRITE_FAILED"
    [] t = "resize" -> "PTY_RESIZE_FAILED"
    [] t = "kill"   -> "PTY_KILL_FAILED"

\* worker k handles the request at the head of its pipe in this step
Handles(k) ==
  /\ wstate[k] \in {"up", "failing"} /\ wstate'[k] = wstate[k]
  /\ reqQ[k] # <<>> /\ reqQ'[k] = Tail(reqQ[k])

\* C14: a write, resize or kill request naming an id that is not in the worker's
\* table is answered with exactly one error event carrying that id and the
\* failure code of the operation; the table, every native process and the worker
\* itself are unchanged, and the requests behind it stay queued.
C14_UnknownIdAnsweredWithError ==
  [][\A k \in Workers :
       IF Handles(k)
         THEN LET m == Head(reqQ[k]) IN
              (m.type \in {"write", "resize", "kill"} /\ m.id \notin ptyProcesses[k]) =>
                 /\ evQ'[k] = Append(evQ[k], Ev("error", m.id, FailureCode(m.type)))
                 /\ UNCHANGED <<ptyProcesses, nat, owner, wstate>>
         ELSE TRUE]_vars

\* the worker answered a write to an exited session with PTY_WRITE_FAILED while
\* another session is still in its table and a later request waits in its pipe
C14_Witness ==
  \E k \in Workers : \E id \in Ids :
     /\ wstate[k] = "up" /\ nat[id] = "exited" /\ owner[id] = k
     /\ \E j \in 1..Len(evQ[k]) : evQ[k][j] = Ev("error", id, "PTY_WRITE_FAILED")
     /\ ptyProcesses[k] # {}
     /\ reqQ[k] # <<>>

\* C15: no exception has escaped the supervisor's 'message' handler for an error
\* event that carries a session id, whether or not a listener is subscribed to
\* the supervisor's 'error' event.
C15_ErrorEventNeverThrows ==
  uncaught = {}

\* the worker handle is Ready: the supervisor refers to a worker process that is
\* running and has completed the handshake
WorkerReady ==
  IF hostProcess = 0 THEN FALSE
  ELSE wstate[hostProcess] = "up" /\ promise[hostProcess] = "resolved"

\* C16: a write, resize or kill call on a returned handle made while the worker
\* handle is not Ready throws: a call that returns without throwing was made
\* with the worker Ready and its request has entered the worker's pipe.
C16_NotReadySendThrows ==
  [][handleCalls' = handleCalls + 1 =>
       /\ WorkerReady
       /\ Len(reqQ'[hostProcess]) = Len(reqQ[hostProcess]) + 1]_vars

\* the message has an unrecognized type, or a recognized type and a required
\* field of the wrong type (the id of spawned, data, exit, resized and killed;
\* pid, data, exitCode, error.message, cols and rows)
Malformed(m) ==
  \/ m.type \notin {"ready", "spawned", "data", "exit", "error", "resized", "killed"}
  \/ m.type \in {"spawned", "data", "exit", "resized", "killed"} /\ m.idType # "number"
  \/ m.type \in {"spawned", "data", "exit", "error", "resized"} /\ m.fields # "ok"

\* C17: a malformed inbound message is dropped before dispatch: it changes
\* neither readiness, nor the registry, nor the callbacks registered or run, nor
\* the restart counter, and no 'error' event is emitted for it.
C17_MalformedMessageRejected ==
  [][(rawSeen' = rawSeen + 1 /\ Malformed(rawIn')) =>
        UNCHANGED <<hostReady, promise, activePTYs, exitCallbacks, exitRuns,
                    errorEmits, uncaught, restartAttempts>>]_vars

\* an exit message with a wrong-typed exitCode named the registered session the
\* orchestrator holds: the session is still registered and its callbacks not run
C17_Witness ==
  /\ rawSeen >= 1 /\ Malformed(rawIn)
  /\ rawIn.type = "exit" /\ rawIn.idType = "number"
  /\ rawIn.id \in activePTYs /\ rawIn.id \in exitCallbacks /\ ptyProcess = rawIn.id
  /\ exitRuns[rawIn.id] = 0

\* the native process of session id has exited and the supervisor has received
\* the exit event its worker sent
ExitEventHandled(id) ==
  /\ nat[id] = "exited"
  /\ wstate[owner[id]] = "up"
  /\ \A j \in 1..Len(evQ[owner[id]]) :
        ~(evQ[owner[id]][j].type = "exit" /\ evQ[owner[id]][j].id = id)

\* C18: a switchShell() call that stopped a running shell is not left waiting
\* for its timeout once that shell has exited and its exit event has reached
\* the supervisor: the exit listener has fired and started the new profile.
C18_SwitchCompletesOnExit ==
  \A i \in 1..Len(switchLog) :
     (switchLog[i].outcome = "waiting" /\ switchLog[i].stopped # 0) =>
        ~ExitEventHandled(switchLog[i].stopped)

\* C19: with no worker crash, the exit callbacks registered on a session are
\* never run twice, and they have been run once when the session's native
\* process has exited and its exit event has reached the supervisor.
C19_ExitDeliveredExactlyOnce ==
  \A id \in exitCallbacks :
     /\ exitRuns[id] <= 1
     /\ ExitEventHandled(id) => exitRuns[id] = 1

\* C20: when spawn() rejects inside start(), start() emits 'error' and leaves
\* the orchestrator idle: no handle (isRunning() is false) and no input or
\* resize listener registered on the render surface.
C20_FailedStartEndsIdle ==
  [][startErrors' = startErrors + 1 =>
       /\ ptyProcess' = 0
       /\ xtermDisposables' = 0
       /\ xtermRegistered' = {}]_vars

ShutDown(k) ==
  \/ wstate[k] \in {"orphan", "ended"}
  \/ wstate[k] \in {"dead", "gone"} /\ wcode[k] = 0

C23_WorkerExitsAfterShutdown ==
  \A k \in Workers :
     (wstate[k] \in {"killed", "orphan"}) ~> (wstate[k] \in {"dead", "gone", "ended"})

\* the restart budget is used up and the worker has exited again: the counter
\* is at its maximum, no worker process is current, no restart is waiting
Exhausted ==
  /\ restartAttempts >= MAX_RESTART_ATTEMPTS
  /\ hostProcess = 0
  /\ restartTimers = 0

\* C25: once the restart budget is exhausted the failure notice has been raised
\* and no step of the supervisor launches another worker process.
C25_ExhaustedIsTerminal ==
  [][Exhausted => (crashNotices >= 1 /\ launched' = launched)]_vars

\* C26: when the supervisor has handled the error event that answered the spawn
\* request of a session, the owner of that session has learned of it: spawn()
\* returned no handle for the id (its promise was rejected, nothing is wired to
\* the id), or the callbacks registered on the handle have been invoked.
C26_SpawnFailureReachesOwner ==
  \A id \in errorEmits :
     spawnReplies[id] = <<"error">> =>
        \/ id \notin handles /\ id \notin exitCallbacks
        \/ exitRuns[id] > 0

\* the session is in the table of a worker that is up
LiveInWorker(id) == \E k \in Workers : wstate[k] = "up" /\ id \in ptyProcesses[k]

KillSent(id) ==
  \E i \in 1..Len(switchLog) : switchLog[i].stopped = id /\ switchLog[i].outcome # "failed"

\* nothing about session id is in a pipe of its worker, which is up: the kill
\* request has been handled and every event about the id has been received
Quiet(id) ==
  LET k == sentTo[id] IN
  /\ k # 0 /\ wstate[k] = "up"
  /\ \A j \in 1..Len(reqQ[k]) : reqQ[k][j].id # id
  /\ \A j \in 1..Len(evQ[k]) : evQ[k][j].id # id

\* C28: for a session that was started and then killed, whatever the worker
\* answers and in whatever order: no error escapes the supervisor's message
\* handler, the session's exit callbacks run at most once, and when the answers
\* have been received the id is no longer in the registry.
C28_KillRaceEndsClean ==
  \A id \in Ids :
     (KillSent(id) /\ spawnReplies[id] = <<"spawned">>) =>
        /\ id \notin uncaught
        /\ exitRuns[id] <= 1
        /\ Quiet(id) => id \notin activePTYs

\* the suspended spawn() w can no longer be settled: the promise it awaits is
\* pending, the worker process that promise belongs to has exited and its exit
\* was handled, and the 5 s timer of that launch has fired
Hung(w) ==
  /\ w.kind # "restart" /\ w.await # 0
  /\ promise[w.await] = "pending"
  /\ wstate[w.await] = "gone"
  /\ w.await \notin initTimer

\* C29: no spawn() call is left hanging: a call suspended on a worker that
\* exited before it was ready is rejected, by the exit or at the latest by the
\* initialisation timeout, also when a later worker has become ready.
C29_SpawnNeverHangs ==
  \A i \in 1..Len(waiters) : ~Hung(waiters[i])

\* C30: the attempt counter never exceeds MAX_RESTART_ATTEMPTS; a restart is
\* begun only by a step that found the counter below the maximum, and that step
\* arms the cooldown timer and launches nothing; after the first worker, a
\* worker process is launched only by the step in which a cooldown timer fires.
C30_RestartWithinBudgetAfterCooldown ==
  [][/\ restartAttempts' <= MAX_RESTART_ATTEMPTS
     /\ restartCalls' > restartCalls =>
           /\ restartAttempts < MAX_RESTART_ATTEMPTS
           /\ restartTimers' = restartTimers + 1
           /\ launched' = launched
     /\ (launched' > launched /\ launched >= 1) =>
           restartTimers' = restartTimers - 1]_vars

\* three restarts were made and the fourth crash was refused one
C30_Witness ==
  /\ restartAttempts = MAX_RESTART_ATTEMPTS
  /\ restartCalls = MAX_RESTART_ATTEMPTS
  /\ launched = MAX_RESTART_ATTEMPTS + 1
  /\ crashNotices >= 1

\* C31: at most one input and resize wiring is registered on the render
\* surface, none when the orchestrator holds no session, and a piece of user
\* input is forwarded as exactly one write request, for the current session.
C31_OneWiringOneForward ==
  [][/\ Cardinality(xtermRegistered') <= 1
     /\ ptyProcess' = 0 => xtermRegistered' = {}
     /\ handleCalls' # handleCalls =>
           /\ handleCalls' = handleCalls + 1
           /\ reqQ'[hostProcess] = Append(reqQ[hostProcess], Req("write", ptyProcess))]_vars

\* the supervisor handles a data event of worker k in this step
DataHandled(k) ==
  /\ evQ[k] # <<>> /\ evQ'[k] = Tail(evQ[k])
  /\ Head(evQ[k]).type = "data"

\* each callback saw the chunks of its session in the order they were produced
ChunksInOrder(log) ==
  \A i, j \in 1..Len(log) :
     (i < j /\ log[i].id = log[j].id /\ log[i].cb = log[j].cb) => log[i].n < log[j].n

\* C32: a data event of a session in the registry is passed to every callback
\* registered for that session, in registration order, and to no other
\* callback; every callback receives the chunks of its session in the order
\* the worker emitted them.
C32_DataFanOutInOrder ==
  [][/\ \A k \in Workers :
          (DataHandled(k) /\ Head(evQ[k]).id \in activePTYs) =>
             LET m == Head(evQ[k])
                 cbs == dataCallbacks[m.id]
             IN dataLog' = dataLog \o [j \in 1..Len(cbs) |->
                                         [id |-> m.id, cb |-> cbs[j], n |-> m.data]]
     /\ ChunksInOrder(dataLog')]_vars

\* session 1 has two callbacks that both received its chunks 1 and 2, the
\* callback of session 2 received a chunk of session 2
C32_Witness ==
  /\ Len(dataCallbacks[1]) = 2 /\ Len(dataCallbacks[2]) = 1
  /\ \A c \in 1..2 : \A n \in 1..2 :
        \E i \in 1..Len(dataLog) :
           dataLog[i] = [id |-> 1, cb |-> dataCallbacks[1][c], n |-> n]
  /\ \E i \in 1..Len(dataLog) : dataLog[i].id = 2

\* the supervisor receives in this step a well-formed spawned, data or exit
\* event whose id is not in its registry
UnregisteredEvent ==
  /\ rawSeen' = rawSeen + 1
  /\ rawIn'.type \in {"spawned", "data", "exit"}
  /\ isHostEvent(rawIn')
  /\ rawIn'.id \notin activePTYs

\* C33: a spawned, data or exit event for an id that is not in the registry
\* changes nothing in the supervisor or the orchestrator: no callback runs, no
\* event is emitted, the registry, readiness, the restart counter, the
\* promises and the sessions' callbacks stay as they are.
C33_UnregisteredEventDropped ==
  [][UnregisteredEvent =>
       UNCHANGED <<supVars, asyncVars, msgObs, orchVars, dataCallbacks, handles,
                   hostExitEmits, startErrors>>]_vars

\* an exit event for an unregistered id was dropped while the registry holds
\* another session
C33_Witness ==
  /\ rawSeen >= 1
  /\ rawIn.type = "exit" /\ isHostEvent(rawIn)
  /\ activePTYs # {} /\ rawIn.id \notin activePTYs
  /\ <<"exit", rawIn.id>> \notin emitted

\* C34: stopHost() leaves the supervisor with no host process, not ready and
\* with an empty registry; after it, as long as spawn() is not called, no
\* restart is begun and no worker process is launched.
C34_StopHostIsFinal ==
  [][/\ stops' > stops => (hostProcess' = 0 /\ ~hostReady' /\ activePTYs' = {})
     /\ stops >= 1 => (restartCalls' = restartCalls /\ launched' = launched)]_vars

\* the supervisor handles the init-failure error of worker k before ready
InitErrorHandled(k) ==
  /\ evQ[k] # <<>> /\ evQ'[k] = Tail(evQ[k])
  /\ Head(evQ[k]) = Ev("error", 0, "PTY_INIT_FAILED")
  /\ wstate'[k] = wstate[k]
  /\ ~hostReady

\* C35: when the supervisor receives the error event of a worker whose backend
\* did not load, the promise of that launch is rejected (the spawn() calls
\* awaiting it are rejected) and 'host-error' is emitted; when the non-zero exit
\* of a worker is handled, a restart is begun if the attempts are below the
\* maximum, and otherwise the failure notice is raised and no restart begins.
C35_InitFailureRejectsAndRestarts ==
  [][\A k \in Workers :
       /\ InitErrorHandled(k) =>
             /\ promise'[k] = "rejected"
             /\ <<"host-error", k>> \in emitted'
       /\ (wstate[k] = "dead" /\ wstate'[k] = "gone" /\ wcode[k] # 0) =>
             IF restartAttempts < MAX_RESTART_ATTEMPTS
               THEN /\ restartCalls' = restartCalls + 1
                    /\ restartTimers' = restartTimers + 1
               ELSE /\ restartCalls' = restartCalls
                    /\ crashNotices' = crashNotices + 1]_vars

\* a spawn() was rejected by the init-failure error of worker 1, worker 1 has
\* exited and the restart has launched worker 2
C35_Witness ==
  /\ <<"host-error", 1>> \in emitted /\ promise[1] = "rejected"
  /\ wstate[1] = "gone" /\ wcode[1] = 1
  /\ restartCalls = 1 /\ launched = 2
  /\ \A i \in 1..Len(waiters) : waiters[i].await # 1

\* worker k has reported a top-level failure that the supervisor has not read yet
FaultReported(k) == \E i \in 1..Len(evQ[k]) : evQ[k][i].code \in FaultCodes

\* C36: a worker that reported an uncaught exception or an unhandled promise
\* rejection exits afterwards; it does not stay running.
C36_UncaughtErrorEndsWorker ==
  \A k \in Workers : FaultReported(k) ~> (wstate[k] \in {"dead", "gone"})

\* the process id the worker reports for session id in its 'spawned' event: the
\* model names a native process by the session that owns it
NativePid(id) == id

\* the pid getter of the handle of id, `ptyData.pid || -1`: ptyData.pid is set
\* where handleHostMessage emits 'spawn' for the id
HandlePid(id) == IF <<"spawn", id>> \in emitted THEN NativePid(id) ELSE -1

\* C37: when start() emits 'start' for a session (the step that records the
\* session as started), the pid it reads from the handle is the native
\* process id the worker reported, not the placeholder -1.
C37_StartCarriesNativePid ==
  [][\A id \in Ids :
       (started[id] = 0 /\ started'[id] # 0) => HandlePid(id)' = NativePid(id)]_vars

\* this step is a switchShell() call that ran stop() on the current session
StopCalled ==
  /\ Len(switchLog') = Len(switchLog) + 1
  /\ switchLog'[Len(switchLog')].outcome \in {"waiting", "failed"}

\* C38: after stop() the orchestrator holds no handle (isRunning() is false),
\* whether the kill request was sent or threw because the worker is not ready.
C38_StopDropsHandle ==
  [][StopCalled => ptyProcess' = 0]_vars

\* C39: the registry holds only sessions whose spawn request was sent to a
\* worker; a spawn() that fails to send its request leaves no entry for the id
\* it allocated.
C39_NoEntryWithoutRequest ==
  \A id \in activePTYs : sentTo[id] # 0

\* the exit callback of session id runs in this step
ExitCallbackRuns(id) == exitRuns'[id] = exitRuns[id] + 1

\* C40: a switch that failed with the timeout has no exit listener left and
\* stays failed: when the exit event of the shell it stopped is handled later,
\* the switch is not completed, and with no other switch waiting no start() is
\* called and the profile is unchanged.
C40_TimedOutSwitchNeverStarts ==
  [][\A i \in 1..Len(switchLog) :
       switchLog[i].outcome = "timeout" =>
          /\ \A j \in 1..Len(exitListeners) : exitListeners[j].sw # i
          /\ switchLog'[i].outcome = "timeout"
          /\ (ExitCallbackRuns(switchLog[i].stopped) /\ exitListeners = <<>>) =>
                /\ currentProfile' = currentProfile
                /\ waiters' = waiters]_vars

\* the shell a timed-out switch had stopped has exited afterwards and its exit
\* callback has run: the switch is still failed and nothing was started
C40_Witness ==
  \E i \in 1..Len(switchLog) :
     /\ switchLog[i].outcome = "timeout"
     /\ exitRuns[switchLog[i].stopped] = 1
     /\ ptyProcess = 0
     /\ currentProfile = switchLog[i].from
     /\ waiters = <<>>

\* a handshake message: ready, or the error that reports a failed backend load
IsHandshake(m) ==
  \/ m.type = "ready"
  \/ m.type = "error" /\ m.idType = "undefined" /\ m.code = "PTY_INIT_FAILED"

\* the handshake messages worker k sends in the step
HandshakeSent(k) ==
  IF Len(evQ'[k]) > Len(evQ[k])
    THEN SelectSeq(SubSeq(evQ'[k], Len(evQ[k]) + 1, Len(evQ'[k])), IsHandshake)
    ELSE <<>>

\* C24: a worker sends a handshake message only in the step that ends its
\* initialisation, which it takes once: ready and nothing else when the backend
\* loaded, the init-failure error and nothing else when it did not; after a
\* failed load it never sends ready, and when it then exits by itself the status
\* is not zero (the error is already sent).
C24_OneHandshakeOutcome ==
  [][\A k \in Workers :
       /\ wstate'[k] = "init" => wstate[k] \in {"none", "init"}
       /\ (wstate[k] = "init" /\ wstate'[k] = "up") =>
             HandshakeSent(k) = <<Ev("ready", 0, "")>>
       /\ (wstate[k] = "init" /\ wstate'[k] = "failing") =>
             HandshakeSent(k) = <<Ev("error", 0, "PTY_INIT_FAILED")>>
       /\ ~(wstate[k] = "init" /\ wstate'[k] \in {"up", "failing"}) =>
             HandshakeSent(k) = <<>>
       /\ (wstate[k] = "failing" /\ wstate'[k] = "dead") => wcode'[k] # 0]_vars

\* a worker whose backend did not load has exited with status 1; its error
\* message is still in the pipe
C24_Witness ==
  \E k \in Workers :
     /\ wstate[k] = "dead" /\ wcode[k] = 1
     /\ evQ[k] = <<Ev("error", 0, "PTY_INIT_FAILED")>>
====
